---- MODULE Spec2Model ----
(***************************************************************************)
(* Durable effect execution of epichron (packages/core).                   *)
(*                                                                         *)
(* One step (effect instance) is run by runEffect / runSagaStep against a  *)
(* history iterator, a publish function and an addRollback callback.  The  *)
(* model follows the code await by await: every action is the completion   *)
(* of one awaited operation together with the synchronous code that runs   *)
(* up to the next await.  A crash may hit between any two of them.         *)
(*                                                                         *)
(*   Spec      the driver re-invokes the step over one durable log that    *)
(*             starts empty; the history iterator reads that log.          *)
(*   SpecHist  the caller supplies an arbitrary history iterator.          *)
(***************************************************************************)
EXTENDS Integers, Sequences, FiniteSets, TLC

VARIABLES
    engine,           \* which step engine runs: "runEffect" or "runSagaStep"
    probeAccurate,    \* descriptor.probe reports 'succeeded' iff the side effect took place
    effectAtomic,     \* descriptor.effect rejects only when no side effect took place
    log,              \* the durable event log of the step (what publish appends to)
    sideEffects,      \* how often the effect's side effect has taken place
    runs,             \* invocations of the engine so far
    pc,               \* position of the current invocation
    historyIterator,  \* params.historyIterator: the results next() will give
    precallEvent,     \* const precallEvent = await historyIterator.next(...)
    callEvent,        \* const callEvent = await historyIterator.next(...)
    probeResult,      \* how await descriptor.probe(...) settled
    effectSettled,    \* how the effect invocation of this run settled
    pending,          \* the Call event whose publish is awaited (success, ret)
    published,        \* events this invocation has published
    rollbacks,        \* closures this invocation passed to addRollback
    trace,            \* operations of this invocation, in order
    outcome,          \* how the invocation settled
    workflow,         \* the saga handed to runSaga: what its step iterator does
    sagaPc,           \* position of runSaga
    requested,        \* iter.next() calls issued by runIter
    received,         \* the Effect Invocations iter.next() has yielded
    sent,             \* the argument of every iter.next() call
    sagaOutcome       \* how runSaga settled

\* the state of the saga driver
sagaVars == <<workflow, sagaPc, requested, received, sent, sagaOutcome>>

vars == <<engine, probeAccurate, effectAtomic, log, sideEffects, runs, pc,
          historyIterator, precallEvent, callEvent, probeResult,
          effectSettled, pending, published, rollbacks, trace, outcome,
          workflow, sagaPc, requested, received, sent, sagaOutcome>>

(***************************************************************************)
(* Bounds                                                                  *)
(***************************************************************************)
MaxRuns == 3
MaxYields == 3

(***************************************************************************)
(* Values                                                                  *)
(***************************************************************************)
Undefined == "undefined"
Null == "null"
AbortError == "AbortError"
TypeError == "TypeError"
UnexpectedEventError == "UnexpectedEventError"
PublishError == "PublishError"
ProbeError == "ProbeError"

\* params.effectInstanceId / config.stepId
effectInstanceId == "step1"
\* params.effectDesc.effectDescriptor.name
effectName == "effect1"
\* params.effectDesc.funcArgs
funcArgs == <<"arg1">>

Engines == {"runEffect", "runSagaStep"}

\* what the effect may resolve with
Rets == {"r1", "r2"}
\* what the effect may reject with: a cancellation error, an ordinary Error,
\* a non-Error payload (a thrown string), null and undefined
EffectErrors == {AbortError, "Error", "payload", Null, Undefined}
\* what publish may reject with (it is handed the abortController)
PublishErrors == {PublishError, AbortError}
\* what probe may reject with
ProbeErrors == {ProbeError, AbortError}

\* e.name for a thrown value e that has properties
NameOf(e) ==
    CASE e = AbortError -> "AbortError"
      [] e = "Error" -> "Error"
      [] e = PublishError -> "Error"
      [] e = ProbeError -> "Error"
      [] OTHER -> Undefined

\* reading a property of null or undefined throws a TypeError
ThrowsOnPropertyRead(e) == e \in {Null, Undefined}

(***************************************************************************)
(* Events and iterator results                                             *)
(***************************************************************************)
PrecallEvent(id, name) ==
    [type |-> "precall", effectInstanceId |-> id, effectName |-> name]

CallEvent(id, name, success, ret) ==
    [type |-> "call", effectInstanceId |-> id, effectName |-> name,
     success |-> success, ret |-> ret]

NoValue == [type |-> "none"]
IterDone == [done |-> TRUE, value |-> NoValue]
IterYield(ev) == [done |-> FALSE, value |-> ev]

\* an async generator over the recorded events: the i-th next()
IterOver(events, i) ==
    IF i <= Len(events) THEN IterYield(events[i]) ELSE IterDone

(***************************************************************************)
(* The synchronous helpers of the engine                                   *)
(***************************************************************************)
\* handlePrecallEvent: TRUE iff it throws UnexpectedEventError
handlePrecallEvent(res, id, name) ==
    /\ ~res.done
    /\ (res.value.type # "precall"
        \/ res.value.effectInstanceId # id
        \/ res.value.effectName # name)

\* mutant: the effect name of the recorded Call is not compared
handleCallEventIgnoresName(res, id, name) ==
    /\ ~res.done
    /\ (res.value.type # "call"
        \/ res.value.effectInstanceId # id)

\* handleCallEvent: TRUE iff it throws UnexpectedEventError
handleCallEvent(res, id, name) ==
    /\ ~res.done
    /\ (res.value.type # "call"
        \/ res.value.effectInstanceId # id
        \/ res.value.effectName # name)

\* new UnexpectedEventError(effectName, effectInstanceId, expectedEventType, actualEnv)
UnexpectedEvent(expectedType, actual) ==
    [expectedEffectName |-> effectName,
     expectedEffectInstanceId |-> effectInstanceId,
     expectedEventType |-> expectedType,
     actualEnv |-> actual]

NoDetail == UnexpectedEvent("none", NoValue)

\* mutant: the Precall carries the name where the id belongs
publishPrecallEventSwapped == PrecallEvent(effectName, effectInstanceId)

\* the event publishPrecallEvent hands to params.publish
publishPrecallEvent == PrecallEvent(effectInstanceId, effectName)

\* mutant: the Call records the opposite outcome
publishCallEventFlipped(success, ret) ==
    CallEvent(effectInstanceId, effectName, ~success, ret)

\* the event publishCallEvent hands to params.publish
publishCallEvent(success, ret) ==
    CallEvent(effectInstanceId, effectName, success, ret)

\* mutant: the closure forgets the result it was bound to
effectRollbackClosureDropsRet(succeeded, ret) ==
    [succeeded |-> succeeded, ret |-> Undefined,
     abortController |-> "abortController", funcArgs |-> funcArgs]

\* mutant: the closure passes a literal true, as runSagaStep's does
effectRollbackClosureAlwaysTrue(succeeded, ret) ==
    [succeeded |-> TRUE, ret |-> ret,
     abortController |-> "abortController", funcArgs |-> funcArgs]

\* runEffect's registerRollbackAction: what the closure will call
\* descriptor.rollback with
effectRollbackClosure(succeeded, ret) ==
    [succeeded |-> succeeded, ret |-> ret,
     abortController |-> "abortController", funcArgs |-> funcArgs]

\* runSagaStep's registerRollbackAction: the closure passes a literal true
sagaStepRollbackClosure(succeeded, ret) ==
    [succeeded |-> TRUE, ret |-> ret,
     abortController |-> "abortController", funcArgs |-> funcArgs]

\* mutant: nothing is registered for a step that did not succeed
registerRollbackActionOnSuccessOnly(rb, succeeded, ret) ==
    IF succeeded THEN Append(rb, effectRollbackClosure(succeeded, ret)) ELSE rb

\* registerRollbackAction: params.addRollback(closure)
registerRollbackAction(rb, succeeded, ret) ==
    Append(rb, IF engine = "runSagaStep"
               THEN sagaStepRollbackClosure(succeeded, ret)
               ELSE effectRollbackClosure(succeeded, ret))

\* mutant: no error is taken for a cancellation
neverAbortError(e) == FALSE

\* mutant: every error is taken for a cancellation
alwaysAbortError(e) == TRUE

\* e.name === 'AbortError'
isAbortError(e) == NameOf(e) = "AbortError"

\* mutant: the probe's answer is ignored and the effect always runs
probeNeverSucceeded(res) == FALSE

\* probeResult.status === 'succeeded'
probeSucceeded(res) == res.status = "succeeded"

(***************************************************************************)
(* The environment: descriptor.probe, descriptor.effect, publish           *)
(***************************************************************************)
NotProbed == [status |-> "none", result |-> Undefined]
ProbeCall == [status |-> "call", result |-> Undefined]
ProbeSucceeded(r) == [status |-> "succeeded", result |-> r]

\* what descriptor.probe may resolve with
ProbeResults ==
    IF probeAccurate
    THEN IF sideEffects > 0 THEN {ProbeSucceeded(r) : r \in Rets} ELSE {ProbeCall}
    ELSE {ProbeCall} \cup {ProbeSucceeded(r) : r \in Rets}

\* side effects a rejecting effect invocation may have left behind
RejectedSideEffects == IF effectAtomic THEN {0} ELSE {0, 1}

(***************************************************************************)
(* State of one invocation                                                 *)
(***************************************************************************)
Unsettled == [kind |-> "none", value |-> Undefined, detail |-> NoDetail]
Resolved(v) == [kind |-> "resolved", value |-> v, detail |-> NoDetail]
Rejected(e) == [kind |-> "rejected", value |-> e, detail |-> NoDetail]
RejectedUnexpected(expectedType, actual) ==
    [kind |-> "rejected", value |-> UnexpectedEventError,
     detail |-> UnexpectedEvent(expectedType, actual)]

NoPending == [success |-> FALSE, ret |-> Undefined]
NotSettled == [kind |-> "none", value |-> Undefined]

TypeOK ==
    /\ engine \in Engines
    /\ probeAccurate \in BOOLEAN
    /\ effectAtomic \in BOOLEAN
    /\ runs \in 0..MaxRuns
    /\ sideEffects \in 0..MaxRuns
    /\ pc \in {"idle", "next1", "next2", "publishPrecall", "probe", "effect",
               "publishCallTry", "publishCallCatch", "publishCallProbe", "done"}
    /\ outcome.kind \in {"none", "resolved", "rejected"}

\* runSaga has not been called
InitSagaIdle ==
    /\ sagaPc = "idle"
    /\ requested = 0
    /\ received = <<>>
    /\ sent = <<>>
    /\ sagaOutcome = [kind |-> "none", value |-> Undefined]

\* a saga that yields nothing and completes
NoSaga ==
    /\ workflow = [yields |-> 0, result |-> "42", throwsAt |-> 0,
                   error |-> "StepError"]
    /\ InitSagaIdle

InitRun ==
    /\ pc = "idle"
    /\ precallEvent = IterDone
    /\ callEvent = IterDone
    /\ probeResult = NotProbed
    /\ effectSettled = NotSettled
    /\ pending = NoPending
    /\ published = <<>>
    /\ rollbacks = <<>>
    /\ trace = <<>>
    /\ outcome = Unsettled

Init ==
    /\ engine \in Engines
    /\ probeAccurate \in BOOLEAN
    /\ effectAtomic \in BOOLEAN
    /\ log = <<>>
    /\ sideEffects = 0
    /\ runs = 0
    /\ historyIterator = <<IterDone, IterDone>>
    /\ InitRun
    /\ NoSaga

env == <<engine, probeAccurate, effectAtomic>>

\* a new invocation starts with nothing read, published or registered
FreshRun(iter, sink) ==
    /\ runs < MaxRuns
    /\ runs' = runs + 1
    /\ pc' = "next1"
    /\ historyIterator' = iter
    /\ precallEvent' = IterDone
    /\ callEvent' = IterDone
    /\ probeResult' = NotProbed
    /\ effectSettled' = NotSettled
    /\ pending' = NoPending
    /\ published' = <<>>
    /\ rollbacks' = <<>>
    /\ trace' = <<"next">>
    /\ outcome' = Unsettled
    /\ log' = sink
    /\ UNCHANGED <<sagaVars, env, sideEffects>>

\* the driver invokes the step over the durable log
StartRun ==
    /\ pc \in {"idle", "done"}
    /\ FreshRun(<<IterOver(log, 1), IterOver(log, 2)>>, log)

\* the invocation settles: nothing more runs
Settle(o) ==
    /\ pc' = "done"
    /\ outcome' = o

\* mutant: the effect is invoked without waiting for the Precall publish
executeInitialEffectUnrecorded(tr) ==
    /\ pc' = "effect"
    /\ trace' = Append(tr, "effect")

\* executeInitialEffect begins: await publishPrecallEvent(params)
executeInitialEffect(tr) ==
    /\ pc' = "publishPrecall"
    /\ trace' = Append(tr, "publish")

\* executeEffect begins: await descriptor.effect(abortController, ...funcArgs)
executeEffect(tr) ==
    /\ pc' = "effect"
    /\ trace' = Append(tr, "effect")

\* mutant: a step with a recorded Precall is run from scratch
executeSubsequentEffectFromScratch(tr) == executeInitialEffect(tr)

\* executeSubsequentEffect begins: await descriptor.probe(...)
executeSubsequentEffect(tr) ==
    /\ pc' = "probe"
    /\ trace' = Append(tr, "probe")

\* mutant: the fallback runs the Fresh path and publishes a second Precall
probeFallbackFromScratch(tr) == executeInitialEffect(tr)

\* executeSubsequentEffect, probe did not succeed: await executeEffect(params)
probeFallback(tr) == executeEffect(tr)

\* const precallEvent = await params.historyIterator.next(...)
NextPrecall ==
    /\ pc = "next1"
    /\ precallEvent' = historyIterator[1]
    /\ pc' = "next2"
    /\ trace' = Append(trace, "next")
    /\ UNCHANGED <<sagaVars, env, log, sideEffects, runs, historyIterator, callEvent,
                   probeResult, effectSettled, pending, published, rollbacks,
                   outcome>>

\* mutant: a rollback is registered before the mismatch is raised
throwUnexpectedEventAfterRollback(expectedType, actual) ==
    /\ Settle(RejectedUnexpected(expectedType, actual))
    /\ rollbacks' = registerRollbackAction(rollbacks, FALSE, Undefined)
    /\ trace' = Append(trace, "addRollback")

\* throw new UnexpectedEventError(...) out of runEffect
throwUnexpectedEvent(expectedType, actual) ==
    /\ Settle(RejectedUnexpected(expectedType, actual))
    /\ UNCHANGED <<rollbacks, trace>>

\* const callEvent = await params.historyIterator.next(...), then the
\* synchronous rest of runEffect up to its next await
NextCall ==
    /\ pc = "next2"
    /\ LET c == historyIterator[2] IN
       /\ callEvent' = c
       /\ IF handlePrecallEvent(precallEvent, effectInstanceId, effectName)
          THEN throwUnexpectedEvent("precall", precallEvent.value)
          ELSE IF handleCallEvent(c, effectInstanceId, effectName)
          THEN throwUnexpectedEvent("call", c.value)
          ELSE IF c.done /\ precallEvent.done
          THEN /\ executeInitialEffect(trace)
               /\ UNCHANGED <<rollbacks, outcome>>
          ELSE IF c.done
          THEN /\ executeSubsequentEffect(trace)
               /\ UNCHANGED <<rollbacks, outcome>>
          ELSE IF c.value.success
          THEN /\ rollbacks' = registerRollbackAction(rollbacks, TRUE, c.value.ret)
               /\ trace' = Append(trace, "addRollback")
               /\ Settle(Resolved(c.value.ret))
          ELSE /\ rollbacks' = registerRollbackAction(rollbacks, FALSE, Undefined)
               /\ trace' = Append(trace, "addRollback")
               /\ Settle(Rejected(c.value.ret))
    /\ UNCHANGED <<sagaVars, env, log, sideEffects, runs, historyIterator, precallEvent,
                   probeResult, effectSettled, pending, published>>

\* params.publish(event, abortController) resolved: the event is in the log
Publish(ev) ==
    /\ log' = Append(log, ev)
    /\ published' = Append(published, ev)

\* executeInitialEffect: the Precall publish settles; on success the effect
\* is invoked (executeEffect's first await)
PublishPrecall ==
    /\ pc = "publishPrecall"
    /\ \/ /\ Publish(publishPrecallEvent)
          /\ executeEffect(Append(trace, "published"))
          /\ UNCHANGED outcome
       \/ \E pe \in PublishErrors :
          /\ Settle(Rejected(pe))
          /\ trace' = Append(trace, "publishFailed")
          /\ UNCHANGED <<log, published>>
    /\ UNCHANGED <<sagaVars, env, sideEffects, runs, historyIterator, precallEvent,
                   callEvent, probeResult, effectSettled, pending, rollbacks>>

\* mutant: a rejected probe is taken for 'call' and the effect is run
probeRejectedFallsBack(pe, tr) ==
    /\ probeResult' = [status |-> "rejected", result |-> pe]
    /\ executeEffect(Append(tr, "probeFailed"))
    /\ UNCHANGED <<pending, outcome>>

\* executeSubsequentEffect: the probe rejected; nothing catches it
probeRejected(pe, tr) ==
    /\ probeResult' = [status |-> "rejected", result |-> pe]
    /\ Settle(Rejected(pe))
    /\ trace' = Append(tr, "probeFailed")
    /\ UNCHANGED pending

\* executeSubsequentEffect: the probe settles
Probe ==
    /\ pc = "probe"
    /\ \/ \E res \in ProbeResults :
          /\ probeResult' = res
          /\ IF probeSucceeded(res)
             THEN \* await publishCallEvent(params, true, probeResult.result)
                  /\ pending' = [success |-> TRUE, ret |-> res.result]
                  /\ pc' = "publishCallProbe"
                  /\ trace' = trace \o <<"probed", "publish">>
                  /\ UNCHANGED outcome
             ELSE /\ probeFallback(Append(trace, "probed"))
                  /\ UNCHANGED <<pending, outcome>>
       \/ \E pe \in ProbeErrors : probeRejected(pe, trace)
    /\ UNCHANGED <<sagaVars, env, log, sideEffects, runs, historyIterator, precallEvent,
                   callEvent, effectSettled, published, rollbacks>>

\* executeSubsequentEffect: the Call publish of the probe's result settles
PublishCallProbe ==
    /\ pc = "publishCallProbe"
    /\ \/ /\ Publish(publishCallEvent(pending.success, pending.ret))
          /\ rollbacks' = registerRollbackAction(rollbacks, TRUE, pending.ret)
          /\ trace' = trace \o <<"published", "addRollback">>
          /\ Settle(Resolved(pending.ret))
       \/ \E pe \in PublishErrors :
          /\ Settle(Rejected(pe))
          /\ trace' = Append(trace, "publishFailed")
          /\ UNCHANGED <<log, published, rollbacks>>
    /\ UNCHANGED <<sagaVars, env, sideEffects, runs, historyIterator, precallEvent,
                   callEvent, probeResult, effectSettled, pending>>

\* the catch block of executeEffect, entered with e after the operations tr
Catch(e, tr) ==
    IF ThrowsOnPropertyRead(e)
    THEN \* e.name throws: the TypeError leaves executeEffect
         /\ Settle(Rejected(TypeError))
         /\ trace' = tr
         /\ UNCHANGED <<pending, rollbacks>>
    ELSE IF isAbortError(e)
    THEN /\ rollbacks' = registerRollbackAction(rollbacks, FALSE, Undefined)
         /\ trace' = Append(tr, "addRollback")
         /\ Settle(Rejected(e))
         /\ UNCHANGED pending
    ELSE \* await publishCallEvent(params, false, e)
         /\ pending' = [success |-> FALSE, ret |-> e]
         /\ pc' = "publishCallCatch"
         /\ trace' = Append(tr, "publish")
         /\ UNCHANGED <<rollbacks, outcome>>

\* executeEffect: the effect invocation settles
Effect ==
    /\ pc = "effect"
    /\ \/ \E ret \in Rets :
          /\ effectSettled' = [kind |-> "resolved", value |-> ret]
          /\ sideEffects' = sideEffects + 1
          /\ pending' = [success |-> TRUE, ret |-> ret]
          /\ pc' = "publishCallTry"
          /\ trace' = trace \o <<"effectResolved", "publish">>
          /\ UNCHANGED <<rollbacks, outcome>>
       \/ \E e \in EffectErrors, done \in RejectedSideEffects :
          /\ effectSettled' = [kind |-> "rejected", value |-> e]
          /\ sideEffects' = sideEffects + done
          /\ Catch(e, Append(trace, "effectRejected"))
    /\ UNCHANGED <<sagaVars, env, log, runs, historyIterator, precallEvent, callEvent,
                   probeResult, published>>

\* executeEffect, try block: the publish of Call{success: true} settles
PublishCallTry ==
    /\ pc = "publishCallTry"
    /\ \/ /\ Publish(publishCallEvent(pending.success, pending.ret))
          /\ rollbacks' = registerRollbackAction(rollbacks, TRUE, pending.ret)
          /\ trace' = trace \o <<"published", "addRollback">>
          /\ Settle(Resolved(pending.ret))
          /\ UNCHANGED pending
       \/ \E pe \in PublishErrors :
          /\ Catch(pe, Append(trace, "publishFailed"))
          /\ UNCHANGED <<log, published>>
    /\ UNCHANGED <<sagaVars, env, sideEffects, runs, historyIterator, precallEvent,
                   callEvent, probeResult, effectSettled>>

\* executeEffect, catch block: the publish of Call{success: false} settles
PublishCallCatch ==
    /\ pc = "publishCallCatch"
    /\ \/ /\ Publish(publishCallEvent(pending.success, pending.ret))
          /\ rollbacks' = registerRollbackAction(rollbacks, FALSE, Undefined)
          /\ trace' = trace \o <<"published", "addRollback">>
          /\ Settle(Rejected(pending.ret))
       \/ \E pe \in PublishErrors :
          /\ Settle(Rejected(pe))
          /\ trace' = Append(trace, "publishFailed")
          /\ UNCHANGED <<log, published, rollbacks>>
    /\ UNCHANGED <<sagaVars, env, sideEffects, runs, historyIterator, precallEvent,
                   callEvent, probeResult, effectSettled, pending>>

\* the process dies between two awaited operations: only the log and the
\* side effects in the world survive
Crash ==
    /\ pc \notin {"idle", "done"}
    /\ pc' = "idle"
    /\ precallEvent' = IterDone
    /\ callEvent' = IterDone
    /\ probeResult' = NotProbed
    /\ effectSettled' = NotSettled
    /\ pending' = NoPending
    /\ published' = <<>>
    /\ rollbacks' = <<>>
    /\ trace' = <<>>
    /\ outcome' = Unsettled
    /\ UNCHANGED <<sagaVars, env, log, sideEffects, runs, historyIterator>>

Step ==
    \/ NextPrecall
    \/ NextCall
    \/ PublishPrecall
    \/ Probe
    \/ PublishCallProbe
    \/ Effect
    \/ PublishCallTry
    \/ PublishCallCatch
    \/ Crash

Next == StartRun \/ Step

Spec == Init /\ [][Next]_vars

\* the driver invokes the step once more after an invocation that left no
\* Call in the log; invocations beyond MaxRuns are not counted
Reinvoke ==
    /\ pc \in {"idle", "done"}
    /\ Len(log) < 2
    /\ runs = MaxRuns
    /\ sideEffects < MaxRuns
    /\ pc' = "next1"
    /\ historyIterator' = <<IterOver(log, 1), IterOver(log, 2)>>
    /\ precallEvent' = IterDone
    /\ callEvent' = IterDone
    /\ probeResult' = NotProbed
    /\ effectSettled' = NotSettled
    /\ pending' = NoPending
    /\ published' = <<>>
    /\ rollbacks' = <<>>
    /\ trace' = <<"next">>
    /\ outcome' = Unsettled
    /\ UNCHANGED <<sagaVars, env, log, sideEffects, runs>>

NextFair == Next \/ Reinvoke

\* every awaited operation settles and its continuation is run; the driver
\* invokes the step again whenever no invocation is under way
SpecFair ==
    /\ Init /\ [][NextFair]_vars
    /\ WF_vars(StartRun)
    /\ WF_vars(Reinvoke)
    /\ WF_vars(NextPrecall)
    /\ WF_vars(NextCall)
    /\ WF_vars(PublishPrecall)
    /\ WF_vars(Probe)
    /\ WF_vars(PublishCallProbe)
    /\ WF_vars(Effect)
    /\ WF_vars(PublishCallTry)
    /\ WF_vars(PublishCallCatch)

(***************************************************************************)
(* A caller-supplied history                                               *)
(***************************************************************************)
StepIds == {"step1", "step2"}
Names == {"effect1", "effect2"}
RecordedRets == Rets \cup EffectErrors

HistoryEvents ==
    {PrecallEvent(id, name) : id \in StepIds, name \in Names}
    \cup {CallEvent(id, name, success, ret) :
            id \in StepIds, name \in Names, success \in BOOLEAN,
            ret \in RecordedRets}

\* what next() of a supplied iterator may give
HistoryResults == {IterDone} \cup {IterYield(ev) : ev \in HistoryEvents}

\* the caller has a recorded history of its own: an iterator that gives
\* any two results, the same on every invocation
InitHist ==
    /\ engine \in Engines
    /\ probeAccurate \in BOOLEAN
    /\ effectAtomic \in BOOLEAN
    /\ log = <<>>
    /\ sideEffects = 0
    /\ runs = 0
    /\ historyIterator \in HistoryResults \X HistoryResults
    /\ InitRun
    /\ NoSaga

\* the caller invokes the step with a new iterator over that history and a
\* publish function that appends to an empty sink
StartRunSupplied ==
    /\ pc \in {"idle", "done"}
    /\ FreshRun(historyIterator, <<>>)

NextHist == StartRunSupplied \/ Step

SpecHist == InitHist /\ [][NextHist]_vars

(***************************************************************************)
(* The saga driver: runSaga and runIter                                    *)
(***************************************************************************)
\* what a saga may complete with, and what its iterator may throw
SagaResults == {"42", "other"}
SagaErrors == {"StepError", UnexpectedEventError}

\* a saga: its iterator yields `yields` Effect Invocations and completes
\* with `result`, unless its throwsAt-th next() rejects with `error`
Workflows ==
    {[yields |-> n, result |-> v, throwsAt |-> k, error |-> e] :
        n \in 0..MaxYields, v \in SagaResults, k \in 0..(MaxYields + 1),
        e \in SagaErrors}

\* the engine is idle: runSaga is handed a saga and nothing else
InitSaga ==
    /\ engine \in Engines
    /\ probeAccurate = TRUE
    /\ effectAtomic = TRUE
    /\ log = <<>>
    /\ sideEffects = 0
    /\ runs = 0
    /\ historyIterator = <<IterDone, IterDone>>
    /\ InitRun
    /\ workflow \in {w \in Workflows :
                        /\ w.throwsAt <= w.yields + 1
                        /\ w.throwsAt = 0 => w.error = "StepError"}
    /\ InitSagaIdle

engineVars == <<env, log, sideEffects, runs, pc, historyIterator,
                precallEvent, callEvent, probeResult, effectSettled, pending,
                published, rollbacks, trace, outcome>>

\* iter.next(): runIter passes no argument
nextArgument == Undefined

\* mutant: runIter returns without the completion value
runIterReturnsNothing(value) == Undefined

\* if (done) return value
runIterReturn(value) == value

\* runSaga: const sagaStepIterator = saga(payload); runIter awaits the first
\* iter.next()
runSaga ==
    /\ sagaPc = "idle"
    /\ sagaPc' = "next"
    /\ requested' = 1
    /\ sent' = <<nextArgument>>
    /\ UNCHANGED <<engineVars, workflow, received, sagaOutcome>>

\* runIter: the awaited iter.next() settles; a yielded element is dropped
\* and runIter calls itself
runIter ==
    /\ sagaPc = "next"
    /\ IF workflow.throwsAt = requested
       THEN \* the rejection leaves runIter and runSaga
            /\ sagaPc' = "rejected"
            /\ sagaOutcome' = [kind |-> "rejected", value |-> workflow.error]
            /\ UNCHANGED <<requested, received, sent>>
       ELSE IF requested <= workflow.yields
       THEN \* done is false: return runIter(iter)
            /\ received' = Append(received, requested)
            /\ requested' = requested + 1
            /\ sent' = Append(sent, nextArgument)
            /\ UNCHANGED <<sagaPc, sagaOutcome>>
       ELSE \* done: return value
            /\ sagaPc' = "resolved"
            /\ sagaOutcome' = [kind |-> "resolved",
                               value |-> runIterReturn(workflow.result)]
            /\ UNCHANGED <<requested, received, sent>>
    /\ UNCHANGED <<engineVars, workflow>>

NextSaga == runSaga \/ runIter

SpecSaga == InitSaga /\ [][NextSaga]_vars

\* a settled promise's continuation is run: the awaited next() is resumed
SpecSagaFair == SpecSaga /\ WF_vars(runIter)

(***************************************************************************)
(* Vocabulary of the properties                                            *)
(***************************************************************************)
Invoked(op) == \E i \in DOMAIN trace : trace[i] = op
Times(op) == Cardinality({i \in DOMAIN trace : trace[i] = op})

\* what a rollback closure bound to (succeeded, ret) calls descriptor.rollback with
BoundTo(succeeded, ret) ==
    [succeeded |-> succeeded, ret |-> ret,
     abortController |-> "abortController", funcArgs |-> <<"arg1">>]

\* the Precall of step1 / effect1
ThePrecall ==
    [type |-> "precall", effectInstanceId |-> "step1", effectName |-> "effect1"]

\* the Call of step1 / effect1 recording (success, ret)
TheCall(success, ret) ==
    [type |-> "call", effectInstanceId |-> "step1", effectName |-> "effect1",
     success |-> success, ret |-> ret]

IsPrecall(ev) ==
    /\ ev.type = "precall"
    /\ ev.effectInstanceId = "step1"
    /\ ev.effectName = "effect1"

IsCall(ev) ==
    /\ ev.type = "call"
    /\ ev.effectInstanceId = "step1"
    /\ ev.effectName = "effect1"

\* the slot holds the Precall of step1 / effect1
MatchingPrecall(res) == ~res.done /\ IsPrecall(res.value)

\* the slot holds a Call of step1 / effect1
MatchingCall(res) == ~res.done /\ IsCall(res.value)

\* no publish of this invocation was rejected
PublishesSucceeded == ~Invoked("publishFailed")

\* the effect rejected with an error that is neither a cancellation nor nullish
EffectFailed ==
    /\ effectSettled.kind = "rejected"
    /\ effectSettled.value \in {"Error", "payload"}

Last(seq) == seq[Len(seq)]

\* an invocation is under way or has settled
Running == pc # "idle"

\* the reconciled state of the invocation's history
FreshHistory == historyIterator[1].done /\ historyIterator[2].done
InFlightHistory == MatchingPrecall(historyIterator[1]) /\ historyIterator[2].done
CompletedHistory ==
    MatchingPrecall(historyIterator[1]) /\ MatchingCall(historyIterator[2])
RecordedCall == historyIterator[2].value

(***************************************************************************)
(* C1: with an accurate probe and an effect that rejects only when nothing *)
(* happened, the side effect takes place at most once over all the         *)
(* invocations of the step on its durable log, crashes included.           *)
(***************************************************************************)
C1_AtMostOnce ==
    (probeAccurate /\ effectAtomic) => sideEffects <= 1

\* a crash after the effect, and a later invocation reconciled by the probe
C1_Witness ==
    /\ probeAccurate /\ effectAtomic
    /\ sideEffects = 1
    /\ runs >= 2
    /\ pc = "done"
    /\ probeResult.status = "succeeded"
    /\ outcome.kind = "resolved"

(***************************************************************************)
(* C2: a history of a matching Precall and a matching successful Call      *)
(* makes the invocation resolve with the recorded ret, without effect,     *)
(* probe or publish, and with one rollback bound to (true, ret); every     *)
(* repetition over that history ends the same way.                         *)
(***************************************************************************)
C2_ReplaySuccess ==
    (Running /\ CompletedHistory /\ RecordedCall.success) =>
        /\ pc \in {"next1", "next2", "done"}
        /\ ~Invoked("effect") /\ ~Invoked("probe") /\ ~Invoked("publish")
        /\ published = <<>>
        /\ pc # "done" => rollbacks = <<>>
        /\ pc = "done" =>
            /\ outcome = Resolved(RecordedCall.ret)
            /\ rollbacks = <<BoundTo(TRUE, RecordedCall.ret)>>

\* the second invocation over the same successful history has resolved
C2_Witness ==
    /\ Running /\ CompletedHistory /\ RecordedCall.success
    /\ runs >= 2
    /\ pc = "done"
    /\ outcome.kind = "resolved"

(***************************************************************************)
(* C3: a history of a matching Precall and a matching failed Call makes    *)
(* runEffect reject with exactly the recorded ret, without effect or       *)
(* publish, and with one rollback bound to (false, undefined).             *)
(***************************************************************************)
C3_ReplayFailure ==
    (Running /\ CompletedHistory /\ ~RecordedCall.success) =>
        /\ pc \in {"next1", "next2", "done"}
        /\ ~Invoked("effect") /\ ~Invoked("publish")
        /\ published = <<>>
        /\ pc # "done" => rollbacks = <<>>
        /\ pc = "done" =>
            /\ outcome = Rejected(RecordedCall.ret)
            /\ Len(rollbacks) = 1
            /\ engine = "runEffect" =>
                   rollbacks = <<BoundTo(FALSE, Undefined)>>

\* runEffect has replayed a recorded failure whose payload is null
C3_Witness ==
    /\ Running /\ CompletedHistory /\ ~RecordedCall.success
    /\ engine = "runEffect"
    /\ RecordedCall.ret = Null
    /\ pc = "done"
    /\ outcome.kind = "rejected"

(***************************************************************************)
(* C4: an invocation on an empty history publishes, in order, the Precall  *)
(* and then the Call of the requested step id and name; when the effect    *)
(* resolves with r (and the publishes go through) the Call records         *)
(* (true, r), one rollback carrying r is registered and r is returned.     *)
(***************************************************************************)
C4_FreshExecution ==
    (Running /\ FreshHistory) =>
        /\ Len(published) <= 2
        /\ Len(published) >= 1 => published[1] = ThePrecall
        /\ Len(published) = 2 => IsCall(published[2])
        /\ (pc = "done" /\ PublishesSucceeded /\ effectSettled.kind = "resolved") =>
            /\ published = <<ThePrecall, TheCall(TRUE, effectSettled.value)>>
            /\ rollbacks = <<BoundTo(TRUE, effectSettled.value)>>
            /\ outcome = Resolved(effectSettled.value)
        /\ (pc = "done" /\ PublishesSucceeded /\ EffectFailed) =>
            published = <<ThePrecall, TheCall(FALSE, effectSettled.value)>>

\* a fresh invocation has returned the effect's result
C4_Witness ==
    /\ Running /\ FreshHistory
    /\ pc = "done"
    /\ effectSettled.kind = "resolved"
    /\ Len(published) = 2
    /\ outcome.kind = "resolved"

(***************************************************************************)
(* C5: InFlight and the probe reports succeeded with r: the effect is not  *)
(* invoked, the one event published is Call{success: true, ret: r}, a      *)
(* rollback bound to (true, r) is registered and r is returned.            *)
(***************************************************************************)
C5_ProbeSucceeded ==
    (Running /\ InFlightHistory /\ probeResult.status = "succeeded") =>
        /\ ~Invoked("effect")
        /\ pc \in {"publishCallProbe", "done"}
        /\ pc = "publishCallProbe" => (published = <<>> /\ rollbacks = <<>>)
        /\ (pc = "done" /\ PublishesSucceeded) =>
            /\ published = <<TheCall(TRUE, probeResult.result)>>
            /\ rollbacks = <<BoundTo(TRUE, probeResult.result)>>
            /\ outcome = Resolved(probeResult.result)
        /\ (pc = "done" /\ ~PublishesSucceeded) => published = <<>>

\* an InFlight invocation has returned the probe's result
C5_Witness ==
    /\ Running /\ InFlightHistory
    /\ probeResult.status = "succeeded"
    /\ pc = "done"
    /\ outcome.kind = "resolved"
    /\ Len(published) = 1

(***************************************************************************)
(* C6: InFlight and the probe reports that a call is needed: the effect is *)
(* invoked exactly once, no Precall is published, and the only event       *)
(* published is the one Call of that invocation.                           *)
(***************************************************************************)
C6_ProbeCallNeeded ==
    (Running /\ InFlightHistory /\ probeResult.status = "call") =>
        /\ Times("effect") = 1
        /\ Len(published) <= 1
        /\ \A i \in DOMAIN published : IsCall(published[i])
        /\ (pc = "done" /\ PublishesSucceeded /\ effectSettled.kind = "resolved") =>
            published = <<TheCall(TRUE, effectSettled.value)>>
        /\ (pc = "done" /\ PublishesSucceeded /\ EffectFailed) =>
            published = <<TheCall(FALSE, effectSettled.value)>>

\* the execute-fallback of InFlight has published its Call
C6_Witness ==
    /\ Running /\ InFlightHistory
    /\ probeResult.status = "call"
    /\ pc = "done"
    /\ effectSettled.kind = "resolved"
    /\ Len(published) = 1

(***************************************************************************)
(* C7: when the effect rejects with an AbortError, on the Fresh path or in *)
(* the fallback of InFlight, no Call is published, one rollback bound to   *)
(* (false, undefined) is registered and the AbortError is re-raised; the   *)
(* log is left with the Precall alone, and an invocation over such a log   *)
(* is InFlight and probes.                                                 *)
(***************************************************************************)
Cancelled ==
    /\ Running
    /\ effectSettled = [kind |-> "rejected", value |-> AbortError]

C7_Cancellation ==
    /\ Cancelled =>
        /\ pc = "done"
        /\ outcome = Rejected(AbortError)
        /\ \A i \in DOMAIN published : published[i].type # "call"
        /\ Times("addRollback") = 1
        /\ Len(rollbacks) = 1
        /\ engine = "runEffect" => rollbacks = <<BoundTo(FALSE, Undefined)>>
        /\ log = <<ThePrecall>>
    /\ (Running /\ log = <<ThePrecall>> /\ published = <<>>
            /\ pc \notin {"next1", "next2"}) =>
        /\ InFlightHistory
        /\ trace[3] = "probe"

\* the fallback of an InFlight invocation was cancelled
C7_Witness ==
    /\ Cancelled
    /\ InFlightHistory
    /\ engine = "runEffect"
    /\ pc = "done"
    /\ Len(rollbacks) = 1

(***************************************************************************)
(* C8: when the effect rejects with an error e that is not a cancellation, *)
(* Call{success: false, ret: e} is published first, then one rollback      *)
(* bound to (false, undefined) is registered, then e is re-raised; once    *)
(* that Call is in the log every later invocation is Completed with that   *)
(* failure and invokes neither the effect nor the probe.                   *)
(***************************************************************************)
RecordedFailure ==
    /\ Len(log) = 2
    /\ log[2].type = "call"
    /\ ~log[2].success

C8_FailureRecorded ==
    /\ (Running /\ EffectFailed) =>
        /\ pc \in {"publishCallCatch", "done"}
        /\ pc = "publishCallCatch" =>
            /\ pending = [success |-> FALSE, ret |-> effectSettled.value]
            /\ Last(trace) = "publish"
            /\ \A i \in DOMAIN published : published[i].type # "call"
            /\ rollbacks = <<>>
            /\ outcome = Unsettled
        /\ (pc = "done" /\ PublishesSucceeded) =>
            /\ Last(published) = TheCall(FALSE, effectSettled.value)
            /\ SubSeq(trace, Len(trace) - 2, Len(trace))
                   = <<"publish", "published", "addRollback">>
            /\ Len(rollbacks) = 1
            /\ engine = "runEffect" => rollbacks = <<BoundTo(FALSE, Undefined)>>
            /\ outcome = Rejected(effectSettled.value)
    /\ (Running /\ RecordedFailure /\ published = <<>>) =>
        /\ CompletedHistory
        /\ RecordedCall = log[2]
        /\ ~Invoked("effect") /\ ~Invoked("probe")
        /\ pc = "done" => outcome = Rejected(log[2].ret)

\* a later invocation has replayed the failure an earlier one recorded
C8_Witness ==
    /\ Running /\ RecordedFailure
    /\ published = <<>>
    /\ runs >= 2
    /\ log[2].ret = "Error"
    /\ pc = "done"
    /\ outcome.kind = "rejected"

(***************************************************************************)
(* C9: whatever value the effect rejects with, null and undefined          *)
(* included, and however the publish of the Call ends, the invocation      *)
(* rejects with that same value.                                           *)
(***************************************************************************)
C9_EffectErrorPropagated ==
    (pc = "done" /\ effectSettled.kind = "rejected") =>
        outcome = Rejected(effectSettled.value)

(***************************************************************************)
(* C10: an event in the first slot that is not the Precall of the step, or *)
(* an event in the second slot that is not a Call of the step, makes the   *)
(* invocation reject with UnexpectedEventError naming what was expected    *)
(* and what was found, whatever the other slot holds.                      *)
(***************************************************************************)
Slot1Mismatch ==
    /\ ~historyIterator[1].done
    /\ ~IsPrecall(historyIterator[1].value)

Slot2Mismatch ==
    /\ ~historyIterator[2].done
    /\ ~IsCall(historyIterator[2].value)

C10_HistoryMismatch ==
    (Running /\ (Slot1Mismatch \/ Slot2Mismatch)) =>
        /\ pc \in {"next1", "next2", "done"}
        /\ pc = "done" =>
            /\ outcome.kind = "rejected"
            /\ outcome.value = UnexpectedEventError
            /\ outcome.detail.expectedEffectName = "effect1"
            /\ outcome.detail.expectedEffectInstanceId = "step1"
            /\ outcome.detail.expectedEventType =
                   IF Slot1Mismatch THEN "precall" ELSE "call"
            /\ outcome.detail.actualEnv =
                   IF Slot1Mismatch THEN historyIterator[1].value
                   ELSE historyIterator[2].value

\* a Call of another effect name was found behind the step's Precall
C10_Witness ==
    /\ Running
    /\ MatchingPrecall(historyIterator[1])
    /\ Slot2Mismatch
    /\ historyIterator[2].value.type = "call"
    /\ historyIterator[2].value.effectInstanceId = "step1"
    /\ pc = "done"
    /\ outcome.value = UnexpectedEventError

(***************************************************************************)
(* C11: an invocation that ends in success, in a recorded failure or in    *)
(* cancellation has called addRollback exactly once, on every path and     *)
(* also when a publish was rejected on the way; no invocation calls it     *)
(* twice.                                                                  *)
(***************************************************************************)
\* the invocation rejected and the step's failure is on record: replayed
\* from the history, or published by this invocation
EndedInRecordedFailure ==
    /\ outcome.kind = "rejected"
    /\ \/ (CompletedHistory /\ ~RecordedCall.success)
       \/ (published # <<>> /\ Last(published).type = "call"
             /\ ~Last(published).success)

\* the invocation rejected with a cancellation error raised by the effect,
\* or by the publish of Call{success: true} that followed it
EndedInCancellation ==
    /\ outcome = Rejected(AbortError)
    /\ \/ effectSettled = [kind |-> "rejected", value |-> AbortError]
       \/ (effectSettled.kind = "resolved" /\ Times("publishFailed") = 1)

C12_RollbackArguments ==
    (pc = "done" /\ Len(rollbacks) = 1) =>
        rollbacks[1] =
            IF outcome.kind = "resolved"
            THEN BoundTo(TRUE, outcome.value)
            ELSE BoundTo(FALSE, Undefined)

(***************************************************************************)
(* C13: whatever crashes, cancellations, effect failures and publish       *)
(* failures occur, the durable log of the step is a prefix of              *)
(* [Precall, Call]: at most one Precall, at most one Call, and a Call only *)
(* behind the Precall.                                                     *)
(***************************************************************************)
C13_LogShape ==
    /\ Len(log) <= 2
    /\ Len(log) >= 1 => log[1] = ThePrecall
    /\ Len(log) = 2 => IsCall(log[2])

\* the third invocation replays a log completed by the second, after a
\* first one that left the Precall alone
C13_Witness ==
    /\ runs = 3
    /\ Len(log) = 2
    /\ CompletedHistory
    /\ sideEffects = 1
    /\ pc = "done"

(***************************************************************************)
(* C16: within one invocation, on the Fresh path the Precall publish has   *)
(* completed before the effect is invoked; the effect has settled before   *)
(* the publish of its Call is attempted; and addRollback is called last,   *)
(* once the outcome is known, never while the Call publish of that         *)
(* outcome is still awaited.                                               *)
(***************************************************************************)
FirstIndex(op) ==
    CHOOSE i \in DOMAIN trace :
        trace[i] = op /\ \A j \in 1..(i - 1) : trace[j] # op

C16_Ordering ==
    /\ (Running /\ FreshHistory /\ Invoked("effect")) =>
        /\ trace[FirstIndex("effect") - 1] = "published"
        /\ Len(published) >= 1
        /\ published[1] = ThePrecall
    /\ pc = "effect" => Last(trace) = "effect"
    /\ \A i \in DOMAIN trace :
        (trace[i] = "publish" /\ Invoked("effect") /\ i > FirstIndex("effect")) =>
            /\ trace[FirstIndex("effect") + 1] \in {"effectResolved", "effectRejected"}
            /\ i > FirstIndex("effect") + 1
    /\ pc \in {"publishPrecall", "publishCallTry", "publishCallCatch",
               "publishCallProbe", "probe", "effect"} => rollbacks = <<>>
    /\ \A i \in DOMAIN trace :
        trace[i] = "addRollback" =>
            /\ i = Len(trace)
            /\ pc = "done"
            /\ trace[i - 1] \in {"next", "published", "effectRejected",
                                 "publishFailed"}
            /\ trace[i - 1] = "published" => Last(published).type = "call"
            /\ trace[i - 1] = "next" => ~historyIterator[2].done

\* a fresh invocation went through Precall, effect, Call and addRollback
C16_Witness ==
    /\ Running /\ FreshHistory
    /\ pc = "done"
    /\ trace = <<"next", "next", "publish", "published", "effect",
                 "effectResolved", "publish", "published", "addRollback">>

(***************************************************************************)
(* C17: when the iterator reports the Precall slot absent and the Call     *)
(* slot present, the invocation rejects, and not with the recorded         *)
(* outcome: the Call is not replayed as if the step were Completed.        *)
(***************************************************************************)
C17_CallWithoutPrecall ==
    (pc = "done" /\ historyIterator[1].done /\ MatchingCall(historyIterator[2])) =>
        /\ outcome.kind = "rejected"
        /\ outcome.value # RecordedCall.ret
        /\ rollbacks = <<>>

(***************************************************************************)
(* C18: when the probe of an InFlight step rejects, the invocation rejects *)
(* with the probe's error; the effect is not invoked, nothing is published *)
(* and the log keeps the Precall alone, so that the next invocation is     *)
(* InFlight again.                                                         *)
(***************************************************************************)
C18_ProbeThrows ==
    /\ (Running /\ probeResult.status = "rejected") =>
        /\ pc = "done"
        /\ InFlightHistory
        /\ outcome = Rejected(probeResult.result)
        /\ ~Invoked("effect") /\ ~Invoked("publish")
        /\ published = <<>>
        /\ rollbacks = <<>>
        /\ log = <<ThePrecall>>
    /\ (Running /\ log = <<ThePrecall>> /\ published = <<>>) => InFlightHistory

\* an InFlight invocation was rejected by its probe
C18_Witness ==
    /\ Running /\ InFlightHistory
    /\ probeResult = [status |-> "rejected", result |-> ProbeError]
    /\ runs >= 2
    /\ pc = "done"
    /\ outcome.kind = "rejected"

(***************************************************************************)
(* C19: a Call with success = false is published, and executeEffect        *)
(* registers a rollback with succeeded = false, only if the effect itself  *)
(* rejected; a resolved effect whose Call{success: true} publish failed is *)
(* never recorded as failed.                                               *)
(***************************************************************************)
C19_FailureOnlyIfEffectRejected ==
    /\ (\E i \in DOMAIN published :
            published[i].type = "call" /\ ~published[i].success) =>
        effectSettled.kind = "rejected"
    /\ (engine = "runEffect" /\ Invoked("effect") /\ rollbacks # <<>>
            /\ ~rollbacks[1].succeeded) =>
        effectSettled.kind = "rejected"

(***************************************************************************)
(* C20: an invocation that rejects with UnexpectedEventError has done      *)
(* nothing but read the two history slots: no publish, no probe, no        *)
(* effect, no rollback registered.                                         *)
(***************************************************************************)
C20_MismatchReadsOnly ==
    (pc = "done" /\ outcome.value = UnexpectedEventError) =>
        /\ trace = <<"next", "next">>
        /\ published = <<>>
        /\ log = <<>>
        /\ rollbacks = <<>>
        /\ probeResult = NotProbed
        /\ effectSettled = NotSettled

\* the first slot held a Call where the Precall was expected
C20_Witness ==
    /\ pc = "done"
    /\ outcome.value = UnexpectedEventError
    /\ outcome.detail.expectedEventType = "precall"
    /\ historyIterator[1].value.type = "call"
    /\ runs >= 2

(***************************************************************************)
(* C14: runSaga passes every Effect Invocation its step iterator yields    *)
(* through the engine exactly once and feeds the step's result back: when  *)
(* runSaga has resolved, the engine was invoked once per yielded element   *)
(* (twice for a saga of two steps).                                        *)
(***************************************************************************)
C14_EngineOncePerStep ==
    sagaPc = "resolved" => runs = Len(received)

(***************************************************************************)
(* C15: runSaga asks for the elements one at a time; a saga that yields    *)
(* finitely many elements and completes with v makes runSaga resolve with  *)
(* v, eventually; and when a request rejects, runSaga rejects with that    *)
(* error and asks for nothing more.                                        *)
(***************************************************************************)
SagaOneAtATime ==
    /\ sagaPc = "idle" => requested = 0
    /\ sagaPc # "idle" => requested = Len(received) + 1
    /\ Len(sent) = requested
    /\ sagaPc = "resolved" =>
        /\ workflow.throwsAt = 0
        /\ Len(received) = workflow.yields
        /\ sagaOutcome = [kind |-> "resolved", value |-> workflow.result]
    /\ sagaPc = "rejected" =>
        /\ requested = workflow.throwsAt
        /\ sagaOutcome = [kind |-> "rejected", value |-> workflow.error]

C15_SagaCompletes ==
    /\ []SagaOneAtATime
    /\ (sagaPc = "next" /\ workflow.throwsAt = 0)
          ~> (sagaOutcome = [kind |-> "resolved", value |-> workflow.result])
    /\ (sagaPc = "next" /\ workflow.throwsAt # 0)
          ~> (sagaOutcome = [kind |-> "rejected", value |-> workflow.error])

\* a saga of two steps has completed with 42
C15_Witness ==
    /\ sagaPc = "resolved"
    /\ workflow.yields = 2
    /\ received = <<1, 2>>
    /\ sagaOutcome.value = "42"

(***************************************************************************)
(* C21: when the driver invokes the step again after every invocation      *)
(* that ended without a recorded Call, and crashes, cancellations, probe   *)
(* failures and publish failures stop happening, the log eventually holds  *)
(* [Precall, Call]; from then on the log never changes and every           *)
(* invocation settles with the recorded outcome.  The first part is stated *)
(* for an effect that rejects only when nothing happened.                  *)
(***************************************************************************)
\* the invocation was hit by a crash, a cancellation, a rejected probe or a
\* rejected publish
Faulted ==
    \/ (pc = "idle" /\ runs > 0)
    \/ effectSettled = [kind |-> "rejected", value |-> AbortError]
    \/ Invoked("probeFailed")
    \/ Invoked("publishFailed")

\* the log holds the Precall and a Call of the step
Recorded ==
    /\ Len(log) = 2
    /\ IsPrecall(log[1])
    /\ IsCall(log[2])

RecordedOutcome ==
    IF log[2].success THEN Resolved(log[2].ret) ELSE Rejected(log[2].ret)

C21_FaultsStop == <>[]~Faulted

C21_LogStable == [][Recorded => (log' = log)]_vars

C21_SameOutcome == [](Recorded /\ pc = "done" => outcome = RecordedOutcome)

C21_EventuallyRecorded ==
    /\ (effectAtomic /\ C21_FaultsStop) => <>Recorded
    /\ C21_LogStable
    /\ C21_SameOutcome

====
